---- MODULE Spec2Model ----
(***************************************************************************)
(* PlayEx: answer grading and the progress ledger.                         *)
(*                                                                         *)
(* Two entry points grade a submission and credit the user:                *)
(*   services.check_solution(user_id, problem_id, user_answer)             *)
(*   main.solve_problem      (POST /api/solve/, identity from headers)     *)
(* Both run against one relational store (tables users, problems,          *)
(* user_solutions).  Every await of the code is one step of a request;     *)
(* the store is READ COMMITTED, so each statement sees what was committed  *)
(* before it, and a commit writes the unit of work of its session at once. *)
(*                                                                         *)
(* A string is a sequence of one-character strings.                        *)
(***************************************************************************)
EXTENDS Integers, Sequences, FiniteSets, TLC

\* ------------------------------------------------------------- bounds

\* Requests that run concurrently (Spec).
NReq == 2
\* Calls made one after the other (SpecSeq).
MaxSubmissions == 3
\* Length of the generated answer strings (SpecGrade).
MaxLen == 3

\* ------------------------------------------------------------- strings

\* Python's None, where a string or a number is expected.
None == <<"<None>">>

UpperChars == <<"A","B","C","D","E","F","G","H","I","J","K","L","M",
                "N","O","P","Q","R","S","T","U","V","W","X","Y","Z">>
LowerChars == <<"a","b","c","d","e","f","g","h","i","j","k","l","m",
                "n","o","p","q","r","s","t","u","v","w","x","y","z">>

\* str.lower(), one character.
CharLower(c) ==
    IF \E i \in DOMAIN UpperChars : UpperChars[i] = c
    THEN LowerChars[CHOOSE i \in DOMAIN UpperChars : UpperChars[i] = c]
    ELSE c

\* str.lower()
StrLower(s) == [i \in DOMAIN s |-> CharLower(s[i])]

\* The characters str.strip() trims and the regex class \s matches.
Whitespace == {" ", "\t", "\n", "\r", "\f"}

\* str.strip(): leading and trailing whitespace removed.
StrStrip(s) ==
    LET keep == {i \in DOMAIN s : s[i] \notin Whitespace}
    IN  IF keep = {} THEN <<>>
        ELSE LET lo == CHOOSE i \in keep : \A j \in keep : i <= j
                 hi == CHOOSE i \in keep : \A j \in keep : j <= i
             IN  SubSeq(s, lo, hi)

\* str.replace(a, b) for a one-character a and b.
StrReplace(s, a, b) == [i \in DOMAIN s |-> IF s[i] = a THEN b ELSE s[i]]

\* re.sub(r'\s+', '', s)
RemoveWhitespace(s) == SelectSeq(s, LAMBDA c : c \notin Whitespace)

\* Mutant: only the first space is removed (str.replace(' ', '', 1)).
RemoveSpaces_first(s) ==
    IF \E i \in DOMAIN s : s[i] = " "
    THEN LET first == CHOOSE i \in DOMAIN s :
                         s[i] = " " /\ \A j \in 1 .. i - 1 : s[j] # " "
         IN  SubSeq(s, 1, first - 1) \o SubSeq(s, first + 1, Len(s))
    ELSE s

\* str.replace(' ', '')
RemoveSpaces(s) == SelectSeq(s, LAMBDA c : c # " ")

\* The delimiters of the regex [;,].
Delimiters == {";", ","}

\* re.search(r'[;,]', s) is not None
HasDelimiter(s) == \E i \in DOMAIN s : s[i] \in Delimiters

RECURSIVE SplitFrom(_, _, _, _)
SplitFrom(s, i, cur, acc) ==
    IF i > Len(s) THEN Append(acc, cur)
    ELSE IF s[i] \in Delimiters
         THEN SplitFrom(s, i + 1, <<>>, Append(acc, cur))
         ELSE SplitFrom(s, i + 1, Append(cur, s[i]), acc)

\* re.split(r'[;,]', s): the fragments between delimiters, empty ones kept.
ReSplit(s) == SplitFrom(s, 1, <<>>, <<>>)

\* Mutant: the letters keep their case.
services_normalize_answer_case_sensitive(s) ==
    IF s = None THEN <<>>
    ELSE StrStrip(StrReplace(RemoveWhitespace(s), ",", "."))

\* Mutant: only spaces are removed inside the string, not tabs or newlines.
services_normalize_answer_spaces_only(s) ==
    IF s = None THEN <<>>
    ELSE StrStrip(StrReplace(RemoveSpaces(StrLower(s)), ",", "."))

\* services._normalize_answer
services_normalize_answer(s) ==
    IF s = None THEN <<>>
    ELSE StrStrip(StrReplace(RemoveWhitespace(StrLower(s)), ",", "."))

\* Mutant: the fragments are put in the set as they were typed.
services_answer_to_set_raw(s) ==
    IF s = None THEN {}
    ELSE LET parts == ReSplit(s)
         IN  {parts[i] : i \in {j \in DOMAIN parts : parts[j] # <<>>}}

\* services._answer_to_set
services_answer_to_set(s) ==
    IF s = None THEN {}
    ELSE LET parts == ReSplit(s)
         IN  {services_normalize_answer(parts[i]) :
                 i \in {j \in DOMAIN parts : parts[j] # <<>>}}

\* main._normalize_answer
main_normalize_answer(answer) == RemoveSpaces(StrLower(StrStrip(answer)))

\* main._answer_to_set
main_answer_to_set(answer) ==
    LET parts == ReSplit(StrStrip(answer))
    IN  {main_normalize_answer(parts[i]) :
            i \in {j \in DOMAIN parts : StrStrip(parts[j]) # <<>>}}

\* Mutant: a missing answer is used as it is.
OrEmpty_missing(x) == x

\* `x or ""` on a nullable string column.
OrEmpty(x) == IF x = None THEN <<>> ELSE x

\* The grading step of services.check_solution.
services_grade(correct_answer, user_answer) ==
    LET correct_raw == OrEmpty(correct_answer)
    IN  IF HasDelimiter(correct_raw)
        THEN services_answer_to_set(user_answer) = services_answer_to_set(correct_raw)
        ELSE services_normalize_answer(user_answer) = services_normalize_answer(correct_raw)

\* The grading step of main.solve_problem (guest and authenticated alike).
main_grade(correct_answer, user_answer) ==
    LET correct_raw == OrEmpty(correct_answer)
    IN  IF HasDelimiter(correct_raw)
        THEN main_answer_to_set(user_answer) = main_answer_to_set(correct_raw)
        ELSE main_normalize_answer(user_answer) = main_normalize_answer(correct_raw)

\* ------------------------------------------------------------- the store

\* Rows of table users (ids), and a user id no row has.
UserIds == {1, 2}
UnknownUserIds == {3}

\* users.tg_id and users.email of the rows (set at registration, never changed
\* by a submission); 0 and "" stand for NULL.
UserTgId == [u \in UserIds |-> IF u = 1 THEN 101 ELSE 0]
UserEmail == [u \in UserIds |-> IF u = 2 THEN "b@x" ELSE ""]

\* Rows of table problems (read-only for a submission), and an id no row has.
ProblemIds == {1, 2}
UnknownProblemIds == {3}
Problems ==
    [p \in ProblemIds |->
        IF p = 1
        THEN [correct_answer |-> <<"2", ";", "3">>, points |-> 10]
        ELSE [correct_answer |-> <<"3", "0">>, points |-> 100]]

\* What a client may submit as user_answer.
AnswerInputs == { <<"3", ";", "2">>, <<"3", "0">> }

\* Values of the X-TG-ID and X-EMAIL headers; "" is an absent header.
TgHeaders == {"", "101", "999", "abc"}
EmailHeaders == {"", "b@x", "z@x"}

\* int(tg_id) on the header values above: the number a string of digits
\* denotes; for any other string int() raises ValueError.
IsNumeric(h) == h \in {"101", "999"}
ParseInt(h) == CASE h = "101" -> 101 [] h = "999" -> 999

\* The calls a client may make.
ServiceCalls ==
    [path : {"services"}, user_id : UserIds \cup UnknownUserIds,
     tg_id : {""}, email : {""},
     problem_id : ProblemIds \cup UnknownProblemIds, user_answer : AnswerInputs]
ApiCalls ==
    { c \in [path : {"main"}, user_id : {0}, tg_id : TgHeaders, email : EmailHeaders,
             problem_id : ProblemIds \cup UnknownProblemIds,
             user_answer : AnswerInputs] :
        c.tg_id = "" \/ c.email = "" }
Calls == ServiceCalls \cup ApiCalls
NoCall ==
    [path |-> "none", user_id |-> 0, tg_id |-> "", email |-> "",
     problem_id |-> 0, user_answer |-> <<>>]

Reqs == 1 .. NReq

VARIABLES
    users,      \* table users: id -> [score, level]
    solutions,  \* table user_solutions, in insertion order
    pc,         \* where each request is
    req,        \* the call each request serves
    sess,       \* the session of each request: the User object it loaded
    resp,       \* the response each request returned
    pre,        \* history: the store when the request started
    audit,      \* history: per (user, problem), what the ledger did
    started,    \* history: submissions started so far
    grading,    \* one application of the grading functions to a pair of strings
    boot        \* the startup handler, the database it initialises, its event log

vars == <<users, solutions, pc, req, sess, resp, pre, audit, started, grading,
          boot>>

\* models.User: score default 0, level default 1.
NewUser == [score |-> 0, level |-> 1]

\* models.UserSolution
UserSolution(user_id, problem_id, user_answer, is_correct) ==
    [user_id |-> user_id, problem_id |-> problem_id,
     user_answer |-> user_answer, is_correct |-> is_correct]

NoSession == [uid |-> 0, score |-> 0, level |-> 0, is_correct |-> FALSE]
NoResponse ==
    [kind |-> "none", correct |-> FALSE, already_solved |-> FALSE,
     correct_answer |-> None, points_earned |-> 0, new_score |-> 0]
NoAudit == [served |-> 0, refused |-> 0, credits |-> 0]
\* The startup handler is not part of the run.
NoBoot ==
    [pc |-> "off", retry_count |-> 0, tables |-> FALSE, categories |-> FALSE,
     problems |-> FALSE, e |-> "", swallowed |-> FALSE, log |-> <<>>]
NoGrading ==
    [by |-> "idle", stored |-> None, submitted |-> <<>>, correct |-> FALSE,
     normalized |-> <<>>, renormalized |-> <<>>, fragments |-> {}]

Init ==
    /\ users = [u \in UserIds |-> NewUser]
    /\ solutions = <<>>
    /\ pc = [r \in Reqs |-> "idle"]
    /\ req = [r \in Reqs |-> NoCall]
    /\ sess = [r \in Reqs |-> NoSession]
    /\ resp = [r \in Reqs |-> NoResponse]
    /\ pre = [r \in Reqs |-> [users |-> users, solutions |-> solutions]]
    /\ audit = [u \in UserIds |-> [p \in ProblemIds |-> NoAudit]]
    /\ started = 0
    /\ grading = NoGrading
    /\ boot = NoBoot

\* ------------------------------------------------------------- queries

\* Mutant: the query leaves out the filter is_correct == True.
has_user_solved_problem_any_attempt(rows, user_id, problem_id) ==
    \E i \in DOMAIN rows :
        /\ rows[i].user_id = user_id
        /\ rows[i].problem_id = problem_id

\* Mutant: the two ids are compared with each other's column.
has_user_solved_problem_swapped(rows, user_id, problem_id) ==
    \E i \in DOMAIN rows :
        /\ rows[i].user_id = problem_id
        /\ rows[i].problem_id = user_id
        /\ rows[i].is_correct

\* select(UserSolution).where(user_id == u, problem_id == p, is_correct == True)
\* has a row: services.has_user_solved_problem, and `existing` of main.solve_problem.
has_user_solved_problem(rows, user_id, problem_id) ==
    \E i \in DOMAIN rows :
        /\ rows[i].user_id = user_id
        /\ rows[i].problem_id = problem_id
        /\ rows[i].is_correct

\* Mutant: the count leaves out the filter is_correct == True.
solved_count_all_attempts(rows, user_id) ==
    Cardinality({i \in DOMAIN rows : rows[i].user_id = user_id})

\* select(func.count(UserSolution.id)).where(user_id == u, is_correct == True):
\* solved_count of services.get_user_stats and of main.get_stats_tg.
solved_count(rows, user_id) ==
    Cardinality({i \in DOMAIN rows : rows[i].user_id = user_id /\ rows[i].is_correct})

\* The identity lookup of main.solve_problem: the ids of the rows the query
\* returns (tg_id and email are unique).
resolve_user(tg_id, email) ==
    IF tg_id # ""
    THEN {u \in UserIds : UserTgId[u] = ParseInt(tg_id)}
    ELSE IF email # ""
         THEN {u \in UserIds : UserEmail[u] = email}
         ELSE {}

\* `not tg_id and not email` of main.solve_problem.
IsGuest(call) == call.tg_id = "" /\ call.email = ""

\* ------------------------------------------------------------- the unit of work

\* Mutant: the level is computed before the points are added.
services_credit_stale_level(loaded, points, is_correct) ==
    IF is_correct
    THEN [score |-> loaded.score + points, level |-> (loaded.score \div 100) + 1]
    ELSE loaded

\* The policy of services.check_solution: the User object after the branch
\* `if is_correct` (loaded is the object as it was read).
services_credit(loaded, points, is_correct) ==
    IF is_correct
    THEN LET score == loaded.score + points
         IN  [score |-> score, level |-> (score \div 100) + 1]
    ELSE loaded

\* The policy of main.solve_problem: the User object after `if is_correct`.
main_credit(loaded, is_correct) ==
    IF is_correct
    THEN [score |-> loaded.score, level |-> loaded.level + 1]
    ELSE loaded

\* The UPDATE a flush emits for a User object: the columns whose value differs
\* from the loaded one are written, the others keep what the row holds.
FlushUser(row, loaded, object) ==
    [score |-> IF object.score # loaded.score THEN object.score ELSE row.score,
     level |-> IF object.level # loaded.level THEN object.level ELSE row.level]

\* Mutant: only a correct solution is inserted.
Commit_only_correct(store, uid, loaded, object, solution) ==
    [users |-> [store.users EXCEPT ![uid] = FlushUser(@, loaded, object)],
     solutions |-> IF solution.is_correct THEN Append(store.solutions, solution)
                   ELSE store.solutions]

\* session.commit(): the store after the UPDATE of the user and the INSERT of
\* the added solution, in one transaction.
Commit(store, uid, loaded, object, solution) ==
    [users |-> [store.users EXCEPT ![uid] = FlushUser(@, loaded, object)],
     solutions |-> Append(store.solutions, solution)]

\* Mutant: the INSERT of the solution survives the failed commit.
Rollback_keeps_insert(store, uid, loaded, object, solution) ==
    [users |-> store.users, solutions |-> Append(store.solutions, solution)]

\* The store after a commit that raised: the transaction is rolled back
\* (the session's context manager in services, db.rollback() in main).
Rollback(store, uid, loaded, object, solution) == store

Store == [users |-> users, solutions |-> solutions]

\* ------------------------------------------------------------- responses

NotFound == [NoResponse EXCEPT !.kind = "not_found"]
ServerError == [NoResponse EXCEPT !.kind = "error"]

\* The dictionary services.check_solution returns for an already solved pair.
services_already_solved ==
    [kind |-> "ok", correct |-> FALSE, already_solved |-> TRUE,
     correct_answer |-> None, points_earned |-> 0, new_score |-> 0]

\* The dictionary services.check_solution returns after the commit.
services_result(problem, is_correct, user) ==
    [kind |-> "ok", correct |-> is_correct, already_solved |-> FALSE,
     correct_answer |-> IF is_correct THEN None ELSE problem.correct_answer,
     points_earned |-> IF is_correct THEN problem.points ELSE 0,
     new_score |-> user.score]

\* The dictionary main.solve_problem returns for an already solved pair.
main_already_solved(user) ==
    [kind |-> "ok", correct |-> FALSE, already_solved |-> TRUE,
     correct_answer |-> None, points_earned |-> 0, new_score |-> user.level]

\* The dictionary main.solve_problem returns to a guest.
main_guest_result(problem, is_correct) ==
    [kind |-> "ok", correct |-> is_correct, already_solved |-> FALSE,
     correct_answer |-> IF is_correct THEN None ELSE problem.correct_answer,
     points_earned |-> 0, new_score |-> 0]

\* The dictionary main.solve_problem returns after the commit.
main_result(problem, is_correct, user) ==
    [kind |-> "ok", correct |-> is_correct, already_solved |-> FALSE,
     correct_answer |-> IF is_correct THEN None ELSE problem.correct_answer,
     points_earned |-> 0, new_score |-> user.level]

\* ------------------------------------------------------------- requests

InFlight == {"svc_check", "svc_load", "svc_commit", "svc_refresh",
             "api_problem", "api_user", "api_existing", "api_commit", "api_refresh"}
BeforeCommit == InFlight \ {"svc_refresh", "api_refresh"}

\* History: a submission of user u for problem p was served.
Record(u, p, refused, credited) ==
    audit' = [audit EXCEPT ![u][p] =
                [served |-> @.served + 1,
                 refused |-> @.refused + (IF refused THEN 1 ELSE 0),
                 credits |-> @.credits + (IF credited THEN 1 ELSE 0)]]

Return(r, response) ==
    /\ resp' = [resp EXCEPT ![r] = response]
    /\ pc' = [pc EXCEPT ![r] = "done"]

Finished == {"done", "failed", "aborted", "failed_after_commit"}

\* Request r starts serving `call`.
Begin(r, call) ==
    /\ req' = [req EXCEPT ![r] = call]
    /\ pc' = [pc EXCEPT ![r] =
                 IF call.path = "services" THEN "svc_check" ELSE "api_problem"]
    /\ sess' = [sess EXCEPT ![r] = NoSession]
    /\ resp' = [resp EXCEPT ![r] = NoResponse]
    /\ pre' = [pre EXCEPT ![r] = Store]
    /\ started' = started + 1
    /\ UNCHANGED <<users, solutions, audit, grading, boot>>

\* A client calls services.check_solution or POST /api/solve/ while the
\* requests before it may still be running (slots are taken in order).
Start(r) ==
    /\ pc[r] = "idle"
    /\ \A q \in Reqs : q < r => pc[q] # "idle"
    /\ \E call \in Calls : Begin(r, call)

\* A client makes its next call after the previous one has returned.
StartNext ==
    /\ pc[1] \in Finished
    /\ started < MaxSubmissions
    /\ \E call \in Calls : Begin(1, call)

\* check_solution: `already_solved = await has_user_solved_problem(...)` and
\* the early return.
check_solution_already_solved(r) ==
    /\ pc[r] = "svc_check"
    /\ IF has_user_solved_problem(solutions, req[r].user_id, req[r].problem_id)
       THEN /\ Return(r, services_already_solved)
            /\ Record(req[r].user_id, req[r].problem_id, TRUE, FALSE)
       ELSE /\ pc' = [pc EXCEPT ![r] = "svc_load"]
            /\ UNCHANGED <<resp, audit>>
    /\ UNCHANGED <<users, solutions, req, sess, pre, started, grading, boot>>

\* check_solution: the problem and the user are read; a missing one ends the call.
check_solution_load(r) ==
    /\ pc[r] = "svc_load"
    /\ IF req[r].problem_id \notin ProblemIds \/ req[r].user_id \notin UserIds
       THEN /\ Return(r, NotFound)
            /\ UNCHANGED sess
       ELSE /\ pc' = [pc EXCEPT ![r] = "svc_commit"]
            /\ sess' = [sess EXCEPT ![r] =
                          [uid |-> req[r].user_id,
                           score |-> users[req[r].user_id].score,
                           level |-> users[req[r].user_id].level,
                           is_correct |-> FALSE]]
            /\ UNCHANGED resp
    /\ UNCHANGED <<users, solutions, req, pre, audit, started, grading, boot>>

\* check_solution: grading, the mutation of the User object, session.add and
\* a session.commit() that succeeds.
check_solution_commit(r) ==
    /\ pc[r] = "svc_commit"
    /\ LET problem == Problems[req[r].problem_id]
           is_correct == services_grade(problem.correct_answer, req[r].user_answer)
           loaded == [score |-> sess[r].score, level |-> sess[r].level]
           object == services_credit(loaded, problem.points, is_correct)
           solution == UserSolution(req[r].user_id, req[r].problem_id,
                                    req[r].user_answer, is_correct)
           after == Commit(Store, sess[r].uid, loaded, object, solution)
       IN  /\ users' = after.users
           /\ solutions' = after.solutions
           /\ sess' = [sess EXCEPT ![r] =
                         [uid |-> @.uid, score |-> object.score,
                          level |-> object.level, is_correct |-> is_correct]]
           /\ Record(req[r].user_id, req[r].problem_id, FALSE, is_correct)
    /\ pc' = [pc EXCEPT ![r] = "svc_refresh"]
    /\ UNCHANGED <<req, resp, pre, started, grading, boot>>

\* check_solution: session.refresh(user) and the returned dictionary.
check_solution_refresh(r) ==
    /\ pc[r] = "svc_refresh"
    /\ Return(r, services_result(Problems[req[r].problem_id], sess[r].is_correct,
                                 users[sess[r].uid]))
    /\ UNCHANGED <<users, solutions, req, sess, pre, audit, started, grading, boot>>

\* Mutant: the attempt of a guest is saved (with no user) before it is answered.
solve_problem_load_saves_guest(r) ==
    /\ pc[r] = "api_problem"
    /\ IF req[r].problem_id \notin ProblemIds
       THEN Return(r, NotFound) /\ UNCHANGED solutions
       ELSE IF IsGuest(req[r])
            THEN LET problem == Problems[req[r].problem_id]
                     is_correct == main_grade(problem.correct_answer,
                                              StrStrip(req[r].user_answer))
                 IN  /\ Return(r, main_guest_result(problem, is_correct))
                     /\ solutions' = Append(solutions,
                           UserSolution(0, req[r].problem_id,
                                        StrStrip(req[r].user_answer), is_correct))
            ELSE /\ pc' = [pc EXCEPT ![r] = "api_user"]
                 /\ UNCHANGED <<resp, solutions>>
    /\ UNCHANGED <<users, req, sess, pre, audit, started, grading, boot>>

\* solve_problem: the problem is read; a missing one is a 404; a guest is
\* graded and answered at once.
solve_problem_load(r) ==
    /\ pc[r] = "api_problem"
    /\ IF req[r].problem_id \notin ProblemIds
       THEN Return(r, NotFound)
       ELSE IF IsGuest(req[r])
            THEN LET problem == Problems[req[r].problem_id]
                 IN  Return(r, main_guest_result(problem,
                        main_grade(problem.correct_answer, StrStrip(req[r].user_answer))))
            ELSE /\ pc' = [pc EXCEPT ![r] = "api_user"]
                 /\ UNCHANGED resp
    /\ UNCHANGED <<users, solutions, req, sess, pre, audit, started, grading, boot>>

\* solve_problem: the user is looked up by X-TG-ID, else by X-EMAIL; none is a
\* 404; an X-TG-ID that int() rejects raises ValueError, which the handler
\* turns into a rollback and HTTP 500.
solve_problem_user(r) ==
    /\ pc[r] = "api_user"
    /\ IF req[r].tg_id # "" /\ ~IsNumeric(req[r].tg_id)
       THEN /\ resp' = [resp EXCEPT ![r] = ServerError]
            /\ pc' = [pc EXCEPT ![r] = "failed"]
            /\ UNCHANGED sess
       ELSE LET found == resolve_user(req[r].tg_id, req[r].email)
            IN  IF found = {}
                THEN /\ Return(r, NotFound)
                     /\ UNCHANGED sess
                ELSE /\ \E u \in found :
                           sess' = [sess EXCEPT ![r] =
                                      [uid |-> u, score |-> users[u].score,
                                       level |-> users[u].level,
                                       is_correct |-> FALSE]]
                     /\ pc' = [pc EXCEPT ![r] = "api_existing"]
                     /\ UNCHANGED resp
    /\ UNCHANGED <<users, solutions, req, pre, audit, started, grading, boot>>

\* solve_problem: the `existing` query and the early return.
solve_problem_existing(r) ==
    /\ pc[r] = "api_existing"
    /\ IF has_user_solved_problem(solutions, sess[r].uid, req[r].problem_id)
       THEN /\ Return(r, main_already_solved(sess[r]))
            /\ Record(sess[r].uid, req[r].problem_id, TRUE, FALSE)
       ELSE /\ pc' = [pc EXCEPT ![r] = "api_commit"]
            /\ UNCHANGED <<resp, audit>>
    /\ UNCHANGED <<users, solutions, req, sess, pre, started, grading, boot>>

\* solve_problem: grading, db.add, the mutation of the User object and a
\* db.commit() that succeeds.
solve_problem_commit(r) ==
    /\ pc[r] = "api_commit"
    /\ LET problem == Problems[req[r].problem_id]
           user_answer == StrStrip(req[r].user_answer)
           is_correct == main_grade(problem.correct_answer, user_answer)
           loaded == [score |-> sess[r].score, level |-> sess[r].level]
           object == main_credit(loaded, is_correct)
           solution == UserSolution(sess[r].uid, req[r].problem_id,
                                    user_answer, is_correct)
           after == Commit(Store, sess[r].uid, loaded, object, solution)
       IN  /\ users' = after.users
           /\ solutions' = after.solutions
           /\ sess' = [sess EXCEPT ![r] =
                         [uid |-> @.uid, score |-> object.score,
                          level |-> object.level, is_correct |-> is_correct]]
           /\ Record(sess[r].uid, req[r].problem_id, FALSE, is_correct)
    /\ pc' = [pc EXCEPT ![r] = "api_refresh"]
    /\ UNCHANGED <<req, resp, pre, started, grading, boot>>

\* solve_problem: db.refresh(user) and the returned dictionary.
solve_problem_refresh(r) ==
    /\ pc[r] = "api_refresh"
    /\ Return(r, main_result(Problems[req[r].problem_id], sess[r].is_correct,
                             users[sess[r].uid]))
    /\ UNCHANGED <<users, solutions, req, sess, pre, audit, started, grading, boot>>

\* The commit of either entry point raises: the transaction is rolled back and
\* the caller gets the error (the exception of check_solution, HTTP 500 of
\* solve_problem).
commit_fails(r) ==
    /\ pc[r] \in {"svc_commit", "api_commit"}
    /\ LET path == req[r].path
           problem == Problems[req[r].problem_id]
           user_answer == IF path = "services" THEN req[r].user_answer
                          ELSE StrStrip(req[r].user_answer)
           is_correct == IF path = "services"
                         THEN services_grade(problem.correct_answer, user_answer)
                         ELSE main_grade(problem.correct_answer, user_answer)
           loaded == [score |-> sess[r].score, level |-> sess[r].level]
           object == IF path = "services"
                     THEN services_credit(loaded, problem.points, is_correct)
                     ELSE main_credit(loaded, is_correct)
           solution == UserSolution(sess[r].uid, req[r].problem_id,
                                    user_answer, is_correct)
           after == Rollback(Store, sess[r].uid, loaded, object, solution)
       IN  /\ users' = after.users
           /\ solutions' = after.solutions
    /\ resp' = [resp EXCEPT ![r] = ServerError]
    /\ pc' = [pc EXCEPT ![r] = "failed"]
    /\ UNCHANGED <<req, sess, pre, audit, started, grading, boot>>

\* session.refresh(user) raises after the commit went through: the caller gets
\* the error, the committed rows stay.
refresh_fails(r) ==
    /\ pc[r] \in {"svc_refresh", "api_refresh"}
    /\ resp' = [resp EXCEPT ![r] = ServerError]
    /\ pc' = [pc EXCEPT ![r] = "failed_after_commit"]
    /\ UNCHANGED <<users, solutions, req, sess, pre, audit, started, grading, boot>>

\* The request is aborted (cancelled, timed out) at an await before its commit:
\* the session is closed without a commit.
abort(r) ==
    /\ pc[r] \in BeforeCommit
    /\ pc' = [pc EXCEPT ![r] = "aborted"]
    /\ UNCHANGED <<users, solutions, req, sess, resp, pre, audit, started, grading, boot>>

Step(r) ==
    \/ check_solution_already_solved(r)
    \/ check_solution_load(r)
    \/ check_solution_commit(r)
    \/ check_solution_refresh(r)
    \/ solve_problem_load(r)
    \/ solve_problem_user(r)
    \/ solve_problem_existing(r)
    \/ solve_problem_commit(r)
    \/ solve_problem_refresh(r)
    \/ commit_fails(r)
    \/ refresh_fails(r)
    \/ abort(r)

\* Requests served concurrently, each step of one interleaved with the others'.
Next == \E r \in Reqs : Start(r) \/ Step(r)

Spec == Init /\ [][Next]_vars

\* Requests served one at a time: one request slot, reused call after call.
NextSeq == Start(1) \/ StartNext \/ Step(1)

SpecSeq == Init /\ [][NextSeq]_vars

\* ------------------------------------------------------------- empty answers

\* A user_answer with nothing in it: empty, or whitespace only.
BlankAnswers == { <<>>, <<" ">>, <<" ", "\t">> }

\* The calls of a client that leaves the answer field empty.
BlankCalls == {[call EXCEPT !.user_answer = a] : call \in Calls, a \in BlankAnswers}

\* A client submits an empty answer, after its previous call has returned.
StartBlank ==
    /\ pc[1] \in {"idle"} \cup Finished
    /\ started < MaxSubmissions
    /\ \E call \in BlankCalls : Begin(1, call)

NextBlank == StartBlank \/ Step(1)

SpecBlank == Init /\ [][NextBlank]_vars

\* ------------------------------------------------------------- grading alone

\* The characters of the generated answers: letters of both cases, a digit,
\* space and tab, the two delimiters and the period.
Alphabet == {"a", "A", "2", " ", "\t", ",", ";", "."}

\* The strings over the alphabet of length n at most.
Strings(n) == UNION {[1 .. k -> Alphabet] : k \in 0 .. n}

\* problems.correct_answer: answers of the seed data of init_db and answers of
\* the same shapes; None is the missing answer `problem.correct_answer or ""`
\* provides for.
StoredInputs ==
    { None,
      <<>>,
      <<"2", ";", "3">>,
      <<"3", "0">>,
      <<"O", "(", "l", "o", "g", " ", "n", ")">>,
      <<"3", ",", "5">>,
      <<"3", ".", "5">>,
      <<"A", ";", "2">>,
      <<"a", ".", "2">>,
      <<";">> }

\* user_answer: every short string, and the answers a client would type for
\* the stored ones.
SubmittedInputs ==
    Strings(MaxLen) \cup
    { <<"3", ",", "2">>,
      <<"3", ";", " ", "2">>,
      <<" ", "2", " ", ",", " ", "3", " ">>,
      <<"2">>,
      <<"2", ";", "3">>,
      <<"2", ";", "3", ";", "4">>,
      <<"3", "0">>,
      <<"3", ".", "0">>,
      <<"o", "(", "l", "o", "g", "n", ")">>,
      <<" ", " ", "O", "(", "L", "o", "g", " ", "N", ")", " ">>,
      <<"O", "(", "L", "O", "G", "\t", "N", ")">>,
      <<"3", ".", "5">>,
      <<"3", ",", "5">>,
      <<"2", ";", " ", ";", "3">>,
      <<"2", ";", "3", ";">> }

\* A pair of strings is given to the grading functions.
InitGrade ==
    /\ users = [u \in UserIds |-> NewUser]
    /\ solutions = <<>>
    /\ pc = [r \in Reqs |-> "idle"]
    /\ req = [r \in Reqs |-> NoCall]
    /\ sess = [r \in Reqs |-> NoSession]
    /\ resp = [r \in Reqs |-> NoResponse]
    /\ pre = [r \in Reqs |-> [users |-> users, solutions |-> solutions]]
    /\ audit = [u \in UserIds |-> [p \in ProblemIds |-> NoAudit]]
    /\ started = 0
    /\ boot = NoBoot
    /\ \E stored \in StoredInputs, submitted \in SubmittedInputs :
          grading = [NoGrading EXCEPT !.by = "none", !.stored = stored,
                                      !.submitted = submitted]

\* services.py applied to the pair: the grading step of check_solution, and
\* _normalize_answer (once and on its own result) and _answer_to_set on the
\* submitted string.
grade_services ==
    /\ grading.by = "none"
    /\ grading' =
          [grading EXCEPT
              !.by = "services",
              !.correct = services_grade(grading.stored, grading.submitted),
              !.normalized = services_normalize_answer(grading.submitted),
              !.renormalized = services_normalize_answer(
                                   services_normalize_answer(grading.submitted)),
              !.fragments = services_answer_to_set(grading.submitted)]
    /\ UNCHANGED <<users, solutions, pc, req, sess, resp, pre, audit, started,
                   boot>>

\* main.py applied to the pair: the grading step of solve_problem on
\* `data.user_answer.strip()`, and _normalize_answer (once and on its own
\* result) and _answer_to_set on the submitted string.
grade_main ==
    /\ grading.by = "none"
    /\ grading' =
          [grading EXCEPT
              !.by = "main",
              !.correct = main_grade(grading.stored, StrStrip(grading.submitted)),
              !.normalized = main_normalize_answer(grading.submitted),
              !.renormalized = main_normalize_answer(
                                   main_normalize_answer(grading.submitted)),
              !.fragments = main_answer_to_set(grading.submitted)]
    /\ UNCHANGED <<users, solutions, pc, req, sess, resp, pre, audit, started,
                   boot>>

NextGrade == grade_services \/ grade_main

SpecGrade == InitGrade /\ [][NextGrade]_vars

\* ------------------------------------------------------------- startup

\* max_retries of the startup handler.
max_retries == 5

\* The database as the handler may find it: fresh, or holding what an earlier
\* run of init_db had committed.
DbStates ==
    { [tables |-> FALSE, categories |-> FALSE, problems |-> FALSE],
      [tables |-> TRUE, categories |-> FALSE, problems |-> FALSE],
      [tables |-> TRUE, categories |-> TRUE, problems |-> FALSE],
      [tables |-> TRUE, categories |-> TRUE, problems |-> TRUE] }

\* The application starts: startup() is entered with retry_count = 0.
InitStartup ==
    /\ users = [u \in UserIds |-> NewUser]
    /\ solutions = <<>>
    /\ pc = [r \in Reqs |-> "idle"]
    /\ req = [r \in Reqs |-> NoCall]
    /\ sess = [r \in Reqs |-> NoSession]
    /\ resp = [r \in Reqs |-> NoResponse]
    /\ pre = [r \in Reqs |-> [users |-> users, solutions |-> solutions]]
    /\ audit = [u \in UserIds |-> [p \in ProblemIds |-> NoAudit]]
    /\ started = 0
    /\ grading = NoGrading
    /\ \E db \in DbStates :
          boot = [NoBoot EXCEPT !.pc = "loop", !.tables = db.tables,
                                !.categories = db.categories,
                                !.problems = db.problems]

\* The steps of init_db at which the handler may be waiting.
InInitDb == {"create_all", "select_category", "add_categories",
             "select_problem", "add_problems"}

\* Mutant: the handler sleeps after every failure, the last one included.
another_attempt_follows_always(retry_count) == TRUE

\* `if retry_count < max_retries` of the except branch.
another_attempt_follows(retry_count) == retry_count < max_retries

\* startup: the test of the while loop and the call of init_db.
startup_attempt ==
    /\ boot.pc = "loop"
    /\ boot' = IF boot.retry_count < max_retries
               THEN [boot EXCEPT !.pc = "create_all",
                                 !.log = Append(@, "init_db")]
               ELSE [boot EXCEPT !.pc = "returned"]
    /\ UNCHANGED <<users, solutions, pc, req, sess, resp, pre, audit, started,
                   grading>>

\* init_db: Base.metadata.create_all
init_db_create_all ==
    /\ boot.pc = "create_all"
    /\ boot' = [boot EXCEPT !.pc = "select_category", !.tables = TRUE]
    /\ UNCHANGED <<users, solutions, pc, req, sess, resp, pre, audit, started,
                   grading>>

\* init_db: select(Category).limit(1)
init_db_select_category ==
    /\ boot.pc = "select_category"
    /\ boot' = [boot EXCEPT !.pc = IF boot.categories THEN "select_problem"
                                  ELSE "add_categories"]
    /\ UNCHANGED <<users, solutions, pc, req, sess, resp, pre, audit, started,
                   grading>>

\* init_db: the categories are added and committed.
init_db_add_categories ==
    /\ boot.pc = "add_categories"
    /\ boot' = [boot EXCEPT !.pc = "select_problem", !.categories = TRUE]
    /\ UNCHANGED <<users, solutions, pc, req, sess, resp, pre, audit, started,
                   grading>>

\* init_db: select(Problem).limit(1); with a problem in the table init_db
\* returns, and startup returns after it.
init_db_select_problem ==
    /\ boot.pc = "select_problem"
    /\ boot' = IF boot.problems
               THEN [boot EXCEPT !.pc = "returned", !.log = Append(@, "done")]
               ELSE [boot EXCEPT !.pc = "add_problems"]
    /\ UNCHANGED <<users, solutions, pc, req, sess, resp, pre, audit, started,
                   grading>>

\* init_db: the problems are added and committed; init_db returns, and startup
\* returns after it.
init_db_add_problems ==
    /\ boot.pc = "add_problems"
    /\ boot' = [boot EXCEPT !.pc = "returned", !.problems = TRUE,
                            !.log = Append(@, "done")]
    /\ UNCHANGED <<users, solutions, pc, req, sess, resp, pre, audit, started,
                   grading>>

\* An await of init_db raises (what it had not committed is lost): the except
\* branch of the loop binds the exception to e (here: the step that raised),
\* counts the failure, then goes to sleep, or re-raises into the outer except,
\* which prints the error and lets startup return.
init_db_fails ==
    /\ boot.pc \in InInitDb
    /\ LET retry_count == boot.retry_count + 1
       IN  boot' = IF another_attempt_follows(retry_count)
                   THEN [boot EXCEPT !.pc = "sleep", !.retry_count = retry_count,
                                     !.e = boot.pc,
                                     !.log = Append(@, "failed")]
                   ELSE [boot EXCEPT !.pc = "returned", !.retry_count = retry_count,
                                     !.e = boot.pc, !.swallowed = TRUE,
                                     !.log = Append(@, "failed")]
    /\ UNCHANGED <<users, solutions, pc, req, sess, resp, pre, audit, started,
                   grading>>

\* startup: asyncio.sleep(2) is over; back to the test of the loop.
startup_sleep ==
    /\ boot.pc = "sleep"
    /\ boot' = [boot EXCEPT !.pc = "loop", !.log = Append(@, "sleep")]
    /\ UNCHANGED <<users, solutions, pc, req, sess, resp, pre, audit, started,
                   grading>>

NextStartup ==
    \/ startup_attempt
    \/ init_db_create_all
    \/ init_db_select_category
    \/ init_db_add_categories
    \/ init_db_select_problem
    \/ init_db_add_problems
    \/ init_db_fails
    \/ startup_sleep

\* The event loop keeps running the handler: an await of init_db returns or
\* raises, and the sleep ends.
SpecStartup == InitStartup /\ [][NextStartup]_vars /\ WF_vars(NextStartup)

\* ------------------------------------------------------------- vocabulary of the claims

\* The answers that are right for each problem of the fixture.
RightAnswer(p, a) ==
    \/ p = 1 /\ a = <<"3", ";", "2">>
    \/ p = 2 /\ a = <<"3", "0">>

\* The call is made by (for) user u of the fixture.
CallOf(call, u) ==
    \/ call.path = "services" /\ call.user_id = u
    \/ call.path = "main" /\ u = 1 /\ call.tg_id = "101"
    \/ call.path = "main" /\ u = 2 /\ call.tg_id = "" /\ call.email = "b@x"

\* The call is a submission of user u for problem p.
SubmissionOf(call, u, p) == CallOf(call, u) /\ call.problem_id = p

\* The rows of (u, p), and the correct ones among them.
RecordsOf(rows, u, p) ==
    {i \in DOMAIN rows : rows[i].user_id = u /\ rows[i].problem_id = p}
CorrectRecordsOf(rows, u, p) ==
    {i \in RecordsOf(rows, u, p) : rows[i].is_correct}

\* ------------------------------------------------------------- C1

\* C1: served one at a time, once a correct record exists for (user, problem),
\* no step of a submission for that pair changes the user's score or level.
C1_NoSecondCredit ==
    [][\A u \in UserIds, p \in ProblemIds :
          (/\ CorrectRecordsOf(solutions, u, p) # {}
           /\ pc[1] \in InFlight
           /\ SubmissionOf(req[1], u, p))
          => users'[u] = users[u]]_vars

\* A submission for an already solved pair was served, after the user's score
\* had been raised.
C1_Witness ==
    \E u \in UserIds, p \in ProblemIds :
        /\ CorrectRecordsOf(pre[1].solutions, u, p) # {}
        /\ SubmissionOf(req[1], u, p)
        /\ pc[1] = "done"
        /\ users[u] # NewUser

\* ------------------------------------------------------------- C2

\* C2: when every concurrent request is a correct services.check_solution
\* submission of one user for one problem and all have returned, the user's
\* score is the initial score plus the problem's points, once.
C2_ExactlyOneCredit ==
    \A u \in UserIds, p \in ProblemIds :
        (\A r \in Reqs :
            /\ pc[r] = "done"
            /\ req[r].path = "services"
            /\ SubmissionOf(req[r], u, p)
            /\ RightAnswer(p, req[r].user_answer))
        => users[u].score = NewUser.score + Problems[p].points

\* ------------------------------------------------------------- C3

\* C3: a user whom a submission has mutated (a credit was committed for the
\* user) has level = floor(score / 100) + 1.
C3_LevelFromScore ==
    \A u \in UserIds :
        (\E p \in ProblemIds : audit[u][p].credits > 0)
        => users[u].level = (users[u].score \div 100) + 1

\* ------------------------------------------------------------- C4

\* The problems for which a credit of user u was committed.
CreditedProblems(u) == {p \in ProblemIds : audit[u][p].credits > 0}

\* C4: served one at a time, the solved_count reported for a user is the
\* number of distinct problems the user was credited for.
C4_SolvedCountIsDistinctCredited ==
    \A u \in UserIds : solved_count(solutions, u) = Cardinality(CreditedProblems(u))

\* A user with a credited problem whose resubmission was refused.
C4_Witness ==
    \E u \in UserIds, p \in ProblemIds :
        /\ solved_count(solutions, u) = 1
        /\ audit[u][p].credits = 1
        /\ audit[u][p].refused > 0

\* ------------------------------------------------------------- C5

\* C5: a guest call of POST /api/solve/ leaves both tables as they were when it
\* started, and for an existing problem it returns the grading of its answer.
C5_GuestIsReadOnly ==
    (req[1].path = "main" /\ req[1].tg_id = "" /\ req[1].email = "")
    => /\ users = pre[1].users
       /\ solutions = pre[1].solutions
       /\ (pc[1] = "done" /\ req[1].problem_id \in ProblemIds)
          => /\ resp[1].kind = "ok"
             /\ resp[1].correct = RightAnswer(req[1].problem_id, req[1].user_answer)
             /\ resp[1].points_earned = 0

\* A guest got a right answer graded correct while the store already held a
\* record and a credited user.
C5_Witness ==
    /\ req[1].path = "main" /\ req[1].tg_id = "" /\ req[1].email = ""
    /\ pc[1] = "done"
    /\ resp[1].correct
    /\ solutions # <<>>
    /\ \E u \in UserIds : users[u] # NewUser

\* ------------------------------------------------------------- C6

\* C6: served one at a time, a request whose commit raised, or which was
\* aborted before its commit, leaves both tables as they were when it started.
C6_FailedCommitLeavesNothing ==
    pc[1] \in {"failed", "aborted"}
    => users = pre[1].users /\ solutions = pre[1].solutions

\* The commit of a first right answer of a user raised.
C6_Witness ==
    \E u \in UserIds, p \in ProblemIds :
        /\ pc[1] = "failed"
        /\ SubmissionOf(req[1], u, p)
        /\ RightAnswer(p, req[1].user_answer)
        /\ CorrectRecordsOf(pre[1].solutions, u, p) = {}

\* ------------------------------------------------------------- C7

\* C7: served one at a time, a right answer for a pair that has exactly one
\* correct record is answered already_solved = true, points_earned = 0, and
\* leaves the user's score and solved_count as they were.
C7_SecondCorrectIsRefused ==
    \A u \in UserIds, p \in ProblemIds :
        (/\ pc[1] = "done"
         /\ SubmissionOf(req[1], u, p)
         /\ RightAnswer(p, req[1].user_answer)
         /\ Cardinality(CorrectRecordsOf(pre[1].solutions, u, p)) = 1)
        => /\ resp[1].kind = "ok"
           /\ resp[1].already_solved
           /\ resp[1].points_earned = 0
           /\ users[u].score = pre[1].users[u].score
           /\ solved_count(solutions, u) = solved_count(pre[1].solutions, u)

\* A second right answer for a credited pair was served.
C7_Witness ==
    \E u \in UserIds, p \in ProblemIds :
        /\ pc[1] = "done"
        /\ SubmissionOf(req[1], u, p)
        /\ RightAnswer(p, req[1].user_answer)
        /\ Cardinality(CorrectRecordsOf(pre[1].solutions, u, p)) = 1
        /\ audit[u][p].credits = 1

\* ------------------------------------------------------------- C8

\* The store after the credit of (u, p) with answer a, from the store `before`.
Credited(before, u, p, a) ==
    LET score == before.users[u].score + Problems[p].points
    IN  [users |-> [before.users EXCEPT
                      ![u] = [score |-> score, level |-> (score \div 100) + 1]],
         solutions |-> Append(before.solutions,
                              [user_id |-> u, problem_id |-> p,
                               user_answer |-> a, is_correct |-> TRUE])]

\* C8: in services.check_solution, served one at a time, a right answer for a
\* pair without a correct record: the store is either still as before or holds
\* the record and the credit together, and once the call has returned it holds
\* both and the result is correct, not already solved, points_earned = points,
\* new_score = the new score.
C8_FirstCorrectIsCredited ==
    \A u \in UserIds, p \in ProblemIds :
        (/\ req[1].path = "services"
         /\ SubmissionOf(req[1], u, p)
         /\ RightAnswer(p, req[1].user_answer)
         /\ CorrectRecordsOf(pre[1].solutions, u, p) = {})
        => /\ Store \in {pre[1], Credited(pre[1], u, p, req[1].user_answer)}
           /\ pc[1] = "done"
              => /\ Store = Credited(pre[1], u, p, req[1].user_answer)
                 /\ resp[1].kind = "ok"
                 /\ resp[1].correct
                 /\ ~resp[1].already_solved
                 /\ resp[1].points_earned = Problems[p].points
                 /\ resp[1].new_score = pre[1].users[u].score + Problems[p].points

\* A credit through services.check_solution that raised the level.
C8_Witness ==
    \E u \in UserIds, p \in ProblemIds :
        /\ req[1].path = "services"
        /\ SubmissionOf(req[1], u, p)
        /\ RightAnswer(p, req[1].user_answer)
        /\ CorrectRecordsOf(pre[1].solutions, u, p) = {}
        /\ pc[1] = "done"
        /\ users[u].level > pre[1].users[u].level

\* ------------------------------------------------------------- C9

\* C9: through POST /api/solve/, served one at a time, a first right answer of
\* a resolved user raises the score by the problem's points and returns
\* correct = true, points_earned = points, new_score = the new score.
C9_ApiFirstCorrectIsCredited ==
    \A u \in UserIds, p \in ProblemIds :
        (/\ req[1].path = "main"
         /\ SubmissionOf(req[1], u, p)
         /\ RightAnswer(p, req[1].user_answer)
         /\ CorrectRecordsOf(pre[1].solutions, u, p) = {}
         /\ pc[1] = "done")
        => /\ users[u].score = pre[1].users[u].score + Problems[p].points
           /\ resp[1].correct
           /\ resp[1].points_earned = Problems[p].points
           /\ resp[1].new_score = users[u].score

\* ------------------------------------------------------------- C10

C11_WrongAnswerCreditsNothing ==
    \A u \in UserIds, p \in ProblemIds :
        (/\ pc[1] = "done"
         /\ SubmissionOf(req[1], u, p)
         /\ CorrectRecordsOf(pre[1].solutions, u, p) = {})
        => IF RightAnswer(p, req[1].user_answer)
           THEN /\ resp[1].correct
                /\ ~resp[1].already_solved
                /\ Cardinality(CorrectRecordsOf(solutions, u, p)) = 1
                /\ users[u] # pre[1].users[u]
           ELSE /\ resp[1].kind = "ok"
                /\ ~resp[1].correct
                /\ ~resp[1].already_solved
                /\ resp[1].points_earned = 0
                /\ resp[1].correct_answer = Problems[p].correct_answer
                /\ users = pre[1].users
                /\ Len(solutions) = Len(pre[1].solutions) + 1
                /\ SubSeq(solutions, 1, Len(pre[1].solutions)) = pre[1].solutions
                /\ solutions[Len(solutions)].user_id = u
                /\ solutions[Len(solutions)].problem_id = p
                /\ ~solutions[Len(solutions)].is_correct
                /\ CorrectRecordsOf(solutions, u, p) = {}

\* A right answer was served and credited for a pair that had a wrong record.
C11_Witness ==
    \E u \in UserIds, p \in ProblemIds :
        /\ pc[1] = "done"
        /\ SubmissionOf(req[1], u, p)
        /\ RightAnswer(p, req[1].user_answer)
        /\ RecordsOf(pre[1].solutions, u, p) # {}
        /\ CorrectRecordsOf(pre[1].solutions, u, p) = {}
        /\ resp[1].correct
        /\ users[u] # pre[1].users[u]

\* ------------------------------------------------------------- vocabulary of the grading claims

\* The positions of s that hold no whitespace, and the k-th of them.
Kept(s) == {i \in DOMAIN s : s[i] \notin Whitespace}
NthKept(s, k) ==
    CHOOSE i \in Kept(s) : Cardinality({j \in Kept(s) : j < i}) = k - 1

\* s without its whitespace, every letter in lower case.
CaseFold(s) ==
    [k \in 1 .. Cardinality(Kept(s)) |-> CharLower(s[NthKept(s, k)])]

\* normalize of the specification: CaseFold with every comma made a period.
SpecNormalize(s) ==
    LET folded == CaseFold(s)
    IN  [k \in DOMAIN folded |-> IF folded[k] = "," THEN "." ELSE folded[k]]

\* The stored answer lists alternatives.
MultiAnswer(s) == s # None /\ \E i \in DOMAIN s : s[i] \in {";", ","}

\* The fragments of s: its maximal non-empty runs without a delimiter.
FragmentSpans(s) ==
    {span \in (DOMAIN s) \X (DOMAIN s) :
        /\ span[1] <= span[2]
        /\ \A k \in span[1] .. span[2] : s[k] \notin {";", ","}
        /\ IF span[1] = 1 THEN TRUE ELSE s[span[1] - 1] \in {";", ","}
        /\ IF span[2] = Len(s) THEN TRUE ELSE s[span[2] + 1] \in {";", ","}}
FragmentSet(s) ==
    {CaseFold(SubSeq(s, span[1], span[2])) : span \in FragmentSpans(s)}

\* s with ';' and ',' exchanged.
SwapDelimiters(s) ==
    [i \in DOMAIN s |-> IF s[i] = ";" THEN "," ELSE IF s[i] = "," THEN ";" ELSE s[i]]

\* s with the parts before and after one of its delimiters exchanged.
Reordered(s) ==
    {SubSeq(s, i + 1, Len(s)) \o <<s[i]>> \o SubSeq(s, 1, i - 1) :
        i \in {j \in DOMAIN s : s[j] \in {";", ","}}}

\* s with a space put next to one of its characters that is neither whitespace
\* nor a delimiter.
IsContent(s, i) == i \in DOMAIN s /\ s[i] \notin Whitespace \cup {";", ","}
Padded(s) ==
    {SubSeq(s, 1, i) \o <<" ">> \o SubSeq(s, i + 1, Len(s)) :
        i \in {j \in 0 .. Len(s) : IsContent(s, j) \/ IsContent(s, j + 1)}}

\* The same alternatives as s, written otherwise.
Variants(s) ==
    {SwapDelimiters(s), s \o <<";">> \o s} \cup Reordered(s) \cup Padded(s)

\* ------------------------------------------------------------- C12

\* C12: services grades a submission for a stored answer with ';' or ','
\* correct exactly when the two have the same set of normalized fragments; the
\* verdict is the same for the submission with its fragments reordered,
\* repeated, separated by the other delimiter or padded with spaces; for the
\* stored "2;3", "3,2", "3; 2" and " 2 , 3 " are correct, "2" and "2;3;4" not.
C12_SetModeComparesFragmentSets ==
    (grading.by = "services" /\ MultiAnswer(grading.stored))
    => /\ grading.correct = (FragmentSet(grading.submitted) = FragmentSet(grading.stored))
       /\ \A v \in Variants(grading.submitted) :
             services_grade(grading.stored, v) = grading.correct
       /\ grading.stored = <<"2", ";", "3">>
          => /\ grading.submitted \in { <<"3", ",", "2">>, <<"3", ";", " ", "2">>,
                                        <<" ", "2", " ", ",", " ", "3", " ">> }
                => grading.correct
             /\ grading.submitted \in { <<"2">>, <<"2", ";", "3", ";", "4">> }
                => ~grading.correct

\* " 2 , 3 " was graded correct for the stored "2;3".
C12_Witness ==
    /\ grading.by = "services"
    /\ grading.stored = <<"2", ";", "3">>
    /\ grading.submitted = <<" ", "2", " ", ",", " ", "3", " ">>
    /\ grading.correct

\* ------------------------------------------------------------- C13

\* C13: services grades a submission for a stored answer without ';' and ','
\* correct exactly when the two are the same but for letter case and
\* whitespace; a difference in any other character makes it incorrect.
C13_ExactButForCaseAndWhitespace ==
    (/\ grading.by = "services"
     /\ grading.stored # None
     /\ ~MultiAnswer(grading.stored))
    => grading.correct = (CaseFold(grading.submitted) = CaseFold(grading.stored))

\* C13 as amended: services grades a submission for a stored answer without
\* ';' and ',' correct exactly when normalize(submitted) = normalize(stored),
\* where normalize folds case, drops whitespace and makes a comma a period: the
\* same but for case and whitespace is correct ("O(log n)" and "o(logn)"), a
\* comma for a period is correct too, any other difference is incorrect
\* ("30" and "3.0").
C13_SingleModeComparesNormalForms ==
    (/\ grading.by = "services"
     /\ grading.stored # None
     /\ ~MultiAnswer(grading.stored))
    => /\ grading.correct
             = (SpecNormalize(grading.submitted) = SpecNormalize(grading.stored))
       /\ CaseFold(grading.submitted) = CaseFold(grading.stored) => grading.correct
       /\ (/\ grading.stored = <<"O", "(", "l", "o", "g", " ", "n", ")">>
           /\ grading.submitted = <<"o", "(", "l", "o", "g", "n", ")">>)
          => grading.correct
       /\ (grading.stored = <<"3", "0">> /\ grading.submitted = <<"3", ".", "0">>)
          => ~grading.correct

\* "3,5" was graded correct for the stored "3.5".
C13_Witness ==
    /\ grading.by = "services"
    /\ grading.stored = <<"3", ".", "5">>
    /\ grading.submitted = <<"3", ",", "5">>
    /\ grading.correct

\* ------------------------------------------------------------- C14

\* C14: the submission "3.5" is graded correct for the stored answer "3,5", by
\* services and by main alike.
C14_DecimalCommaStored ==
    (/\ grading.by \in {"services", "main"}
     /\ grading.stored = <<"3", ",", "5">>
     /\ grading.submitted = <<"3", ".", "5">>)
    => grading.correct

\* ------------------------------------------------------------- C15

\* C15: for every input string, _normalize_answer of services.py and of
\* main.py returns a string, and returns the same string when it is applied
\* to its own result.
C15_NormalizeIsIdempotent ==
    grading.by \in {"services", "main"}
    => /\ DOMAIN grading.normalized = 1 .. Len(grading.normalized)
       /\ Len(grading.normalized) <= Len(grading.submitted)
       /\ grading.renormalized = grading.normalized

\* main._normalize_answer was applied to a string with a comma and with spaces
\* inside and around it, and again to what it returned.
C15_Witness ==
    /\ grading.by = "main"
    /\ grading.submitted = <<" ", "2", " ", ",", " ", "3", " ">>
    /\ grading.normalized = <<"2", ",", "3">>
    /\ grading.renormalized = grading.normalized

\* ------------------------------------------------------------- C16

\* C16: services._normalize_answer returns the characters of its input that
\* are not whitespace, in their order, each letter in lower case and each comma
\* as a period; "  O(Log N) " gives "o(logn)", as "o(logn)" does.
C16_ServicesNormalForm ==
    grading.by = "services"
    => /\ grading.normalized = SpecNormalize(grading.submitted)
       /\ grading.submitted \in
             { <<" ", " ", "O", "(", "L", "o", "g", " ", "N", ")", " ">>,
               <<"o", "(", "l", "o", "g", "n", ")">> }
          => grading.normalized = <<"o", "(", "l", "o", "g", "n", ")">>

\* "  O(Log N) " was normalized by services.
C16_Witness ==
    /\ grading.by = "services"
    /\ grading.submitted = <<" ", " ", "O", "(", "L", "o", "g", " ", "N", ")", " ">>
    /\ grading.normalized = <<"o", "(", "l", "o", "g", "n", ")">>

\* ------------------------------------------------------------- C17

\* C17: for a stored answer that is missing or empty, services and main grade
\* a submission correct exactly when it normalizes to the empty string, that
\* is when it has no character other than whitespace.
C17_EmptyStoredAnswer ==
    (grading.by \in {"services", "main"} /\ grading.stored \in {None, <<>>})
    => /\ grading.correct = (Kept(grading.submitted) = {})
       /\ grading.normalized # <<>> => ~grading.correct

\* A submission of whitespace was graded correct for a missing stored answer,
\* by POST /api/solve/.
C17_Witness ==
    /\ grading.by = "main"
    /\ grading.stored = None
    /\ grading.submitted = <<" ", "\t">>
    /\ grading.correct

\* ------------------------------------------------------------- C18

\* The call names an identity (a user id, an X-TG-ID or an X-EMAIL header) that
\* no user of the fixture has.
Unresolvable(call) ==
    /\ call.path \in {"services", "main"}
    /\ ~(call.path = "main" /\ call.tg_id = "" /\ call.email = "")
    /\ ~\E u \in UserIds : CallOf(call, u)

\* C18: served one at a time, a submission for a problem that does not exist,
\* or with an identity that resolves to no user, never reaches grading or a
\* commit, leaves both tables as they were when it started, and ends with
\* not-found (never with the graded answer a guest gets, nor with an error).
C18_NotFoundWritesNothing ==
    (\/ req[1].problem_id \in UnknownProblemIds
     \/ Unresolvable(req[1]))
    => /\ users = pre[1].users
       /\ solutions = pre[1].solutions
       /\ pc[1] \notin {"svc_commit", "svc_refresh", "api_commit", "api_refresh",
                        "failed", "failed_after_commit"}
       /\ pc[1] = "done" => resp[1].kind = "not_found"

\* ------------------------------------------------------------- C19

\* C19: a submission whose answer is empty or whitespace only is rejected
\* before grading: it is never answered with a graded result, and it leaves
\* both tables as they were when it started.
C19_BlankAnswerIsRejected ==
    (req[1].path \in {"services", "main"} /\ Kept(req[1].user_answer) = {})
    => /\ users = pre[1].users
       /\ solutions = pre[1].solutions
       /\ pc[1] = "done" => resp[1].kind # "ok"

\* ------------------------------------------------------------- C20

\* C20: served one at a time, a submission for a pair that already has a
\* correct record is answered with the grading of its answer in `correct`
\* (true for a right answer, false for a wrong one), and credits nothing.
C20_ResubmissionIsGraded ==
    \A u \in UserIds, p \in ProblemIds :
        (/\ pc[1] = "done"
         /\ SubmissionOf(req[1], u, p)
         /\ CorrectRecordsOf(pre[1].solutions, u, p) # {})
        => /\ resp[1].correct = RightAnswer(p, req[1].user_answer)
           /\ users = pre[1].users

\* ------------------------------------------------------------- C21

\* C21: served one at a time (every problem of the fixture has non-negative
\* points), after every step each user's score is at least 0 and level at
\* least 1, and neither is lower than before the step.
C21_ScoreAndLevelNeverDecrease ==
    [][\A u \in UserIds :
          /\ users'[u].score >= 0
          /\ users'[u].level >= 1
          /\ users'[u].score >= users[u].score
          /\ users'[u].level >= users[u].level]_vars

\* ------------------------------------------------------------- C22

RECURSIVE SumOfPoints(_)
\* The points of the problems in ps, added up.
SumOfPoints(ps) ==
    IF ps = {} THEN 0
    ELSE LET p == CHOOSE q \in ps : TRUE
         IN  Problems[p].points + SumOfPoints(ps \ {p})

\* C22: when the concurrent requests are right first answers of one user
\* through services.check_solution, each for a different problem, and all have
\* returned, the user's score is the initial score plus the points of all
\* those problems: the sum of the points of the problems the user has a
\* correct record for.
C22_NoLostCredit ==
    \A u \in UserIds :
        (/\ \A r \in Reqs :
               /\ pc[r] = "done"
               /\ req[r].path = "services"
               /\ CallOf(req[r], u)
               /\ req[r].problem_id \in ProblemIds
               /\ RightAnswer(req[r].problem_id, req[r].user_answer)
         /\ \A r1, r2 \in Reqs : r1 # r2 => req[r1].problem_id # req[r2].problem_id)
        => users[u].score
              = NewUser.score
                + SumOfPoints({p \in ProblemIds : CorrectRecordsOf(solutions, u, p) # {}})

\* ------------------------------------------------------------- C23

\* C23: for every stored and every submitted answer, the verdict of
\* main.solve_problem equals the verdict of services.check_solution.
C23_GradingImplementationsAgree ==
    /\ grading.by = "main"
       => grading.correct = services_grade(grading.stored, grading.submitted)
    /\ grading.by = "services"
       => grading.correct = main_grade(grading.stored, StrStrip(grading.submitted))

\* ------------------------------------------------------------- C24

\* C24: the set _answer_to_set builds (in services.py and in main.py) never
\* contains the empty string, and "2; ;3" and "2;3;" are graded correct for
\* the stored answer "2;3".
C24_NoEmptyAlternative ==
    grading.by \in {"services", "main"}
    => /\ <<>> \notin grading.fragments
       /\ (/\ grading.stored = <<"2", ";", "3">>
           /\ grading.submitted \in { <<"2", ";", " ", ";", "3">>,
                                      <<"2", ";", "3", ";">> })
          => grading.correct

\* ------------------------------------------------------------- C25

\* How many times the event was logged by the startup handler.
EventCount(ev) == Cardinality({i \in DOMAIN boot.log : boot.log[i] = ev})

\* What C25 says of every state of the startup handler: init_db is called at
\* most max_retries times; a successful call is the last event; the handler
\* sleeps after a failure and only there, and a sleep is followed by another
\* call; after max_retries failures the handler has returned with the error
\* swallowed.
StartupIsBounded ==
    /\ boot.pc # "raised"
    /\ EventCount("init_db") <= max_retries
    /\ \A i \in DOMAIN boot.log :
          /\ boot.log[i] = "done" => i = Len(boot.log) /\ boot.pc = "returned"
          /\ boot.log[i] = "sleep" => i > 1 /\ boot.log[i - 1] = "failed"
          /\ (boot.log[i] = "sleep" /\ i < Len(boot.log))
             => boot.log[i + 1] = "init_db"
          /\ (boot.log[i] = "failed" /\ i < Len(boot.log))
             => boot.log[i + 1] = "sleep"
    /\ boot.pc = "returned"
       => /\ boot.log[Len(boot.log)] \in {"done", "failed"}
          /\ boot.swallowed = (EventCount("failed") = max_retries)
          /\ boot.swallowed = (boot.log[Len(boot.log)] = "failed")
    /\ EventCount("failed") = max_retries => boot.pc = "returned"

\* C25: the startup handler always returns; it calls init_db at most 5 times,
\* makes no call after a successful one, sleeps between two attempts and not
\* after the last one, and after 5 failures returns with the error swallowed.
C25_StartupTerminates ==
    /\ []StartupIsBounded
    /\ <>(boot.pc = "returned")

\* The handler has returned after 5 failed calls and 4 sleeps, with no problem
\* in the database.
C25_Witness ==
    /\ boot.pc = "returned"
    /\ boot.swallowed
    /\ EventCount("init_db") = 5
    /\ EventCount("sleep") = 4
    /\ ~boot.problems

====
